---- MODULE Spec2Model ----
(***************************************************************************)
(* Model of server/content-filter.py: the NudeNet based image content     *)
(* filter.  One process is modelled from module import to exit: either    *)
(* the script run (main) or a client that imported the module and calls   *)
(* check_image_content several times, one call after the other.           *)
(*                                                                         *)
(* Confidences are integers in thousandths (0.2 is 200).  A dict is the   *)
(* sequence of its <<key, value>> pairs in insertion order.                *)
(***************************************************************************)
EXTENDS Integers, Sequences, FiniteSets, TLC

(***************************************************************************)
(* Bounds of the model                                                     *)
(***************************************************************************)
\* longest detection sequence the detector returns
MaxDets == 2
\* calls of check_image_content a client process makes
MaxCalls == 2
\* most positional arguments on the command line
MaxArgs == 2

(***************************************************************************)
(* Program constants                                                       *)
(***************************************************************************)
explicit_threshold == 200

suggestive_threshold == 300

high_risk_labels ==
    << "EXPOSED_ANUS", "EXPOSED_BUTTOCKS", "EXPOSED_BREAST_F",
       "EXPOSED_GENITALIA_F", "EXPOSED_GENITALIA_M" >>

moderate_risk_labels == << "EXPOSED_ARMPITS", "EXPOSED_BELLY", "EXPOSED_FEET" >>

None == 0

EmptyDict == << >>

(***************************************************************************)
(* Inputs: what the detector may return and what a payload may be          *)
(***************************************************************************)
\* labels the detector reports: the high-risk ones, a moderate-risk one
\* and one the policy never reads
DetLabels ==
    { high_risk_labels[i] : i \in 1..Len(high_risk_labels) }
        \cup { "EXPOSED_ARMPITS", "FACE_F" }

\* at the threshold, just above it (prints as 0.20), far above it
DetScores == { 200, 204, 900 }

\* a detection without its 'class' key: detection['class'] raises KeyError
NoClassDetection == [box |-> 0]

Detections ==
    [class : DetLabels, score : DetScores] \cup { NoClassDetection }

RECURSIVE SeqsUpTo(_, _)
SeqsUpTo(S, n) ==
    IF n = 0 THEN { << >> }
    ELSE LET shorter == SeqsUpTo(S, n - 1)
         IN  shorter \cup { Append(s, x) : s \in { t \in shorter : Len(t) = n - 1 }, x \in S }

DetectionSeqs == SeqsUpTo(Detections, MaxDets)

\* a base64 payload, by what decoding and opening it do
Payloads == { "bad_base64", "bad_image", "image_RGB", "image_RGBA", "image_unconvertible" }

ArgLists == SeqsUpTo(Payloads, MaxArgs)

(***************************************************************************)
(* dict operations                                                         *)
(***************************************************************************)
DictKeys(d) == { d[i][1] : i \in 1..Len(d) }

DictHas(d, k) == k \in DictKeys(d)

\* d[k] of a key that is present
DictAt(d, k) == d[CHOOSE i \in 1..Len(d) : d[i][1] = k][2]

\* d.get(k, default)
DictGet(d, k, default) == IF DictHas(d, k) THEN DictAt(d, k) ELSE default

\* d[k] = v: a present key keeps its place, a new key goes last
DictSet(d, k, v) ==
    IF DictHas(d, k)
    THEN [i \in 1..Len(d) |-> IF d[i][1] = k THEN << k, v >> ELSE d[i]]
    ELSE Append(d, << k, v >>)

\* d1 == d2 of two dicts: the same keys with the same values, in any order
DictEq(d1, d2) == { d1[i] : i \in 1..Len(d1) } = { d2[i] : i \in 1..Len(d2) }

Max(a, b) == IF a >= b THEN a ELSE b

(***************************************************************************)
(* Messages: the constant text, the label and the formatted confidence of *)
(* an f-string, and the error text, kept apart                             *)
(***************************************************************************)
\* f"{x:.2f}": x rounded to hundredths, as <<integer part, two digits>>.
\* (The scores of DetScores are not half-way between two hundredths.)
Fmt2(c) == LET r == (c + 5) \div 10 IN << r \div 100, r % 100 >>

Message(text, label, conf, err) ==
    [text |-> text, label |-> label, conf |-> conf, err |-> err]

InappropriateMessage(label, sc) ==
    Message("Inappropriate content detected: ", label, Fmt2(DictAt(sc, label)), "")

AppropriateMessage == Message("Content appropriate for teen users", "", << >>, "")

ErrorMessage(e) == Message("Content filtering error: ", "", << >>, e)

UsageMessage ==
    Message("Usage: python content-filter.py <base64_image_data>", "", << >>, "")

Verdict(appropriate, sc, message) ==
    [appropriate |-> appropriate, scores |-> sc, message |-> message]

(***************************************************************************)
(* The pure parts of check_image_content                                   *)
(***************************************************************************)
\* a detection whose 'class' and 'score' can be read
WellFormed(det) == DOMAIN det = { "class", "score" }

\* AggStep that overwrites: the last detection of a label wins
AggStepKeepsLast(sc, det) == DictSet(sc, det.class, det.score)

\* AggStep that never updates: the first detection of a label wins
AggStepKeepsFirst(sc, det) ==
    IF DictHas(sc, det.class) THEN sc ELSE DictSet(sc, det.class, det.score)

\* one turn of the aggregation loop
AggStep(sc, det) ==
    LET label      == det.class
        confidence == det.score
        sc0        == IF ~DictHas(sc, label) THEN DictSet(sc, label, 0) ELSE sc
    IN  DictSet(sc0, label, Max(DictAt(sc0, label), confidence))

\* PolicyFrom comparing with suggestive_threshold
RECURSIVE PolicyFromLax(_, _)
PolicyFromLax(sc, i) ==
    IF i > Len(high_risk_labels)
    THEN Verdict(TRUE, sc, AppropriateMessage)
    ELSE IF DictGet(sc, high_risk_labels[i], 0) > suggestive_threshold
         THEN Verdict(FALSE, sc, InappropriateMessage(high_risk_labels[i], sc))
         ELSE PolicyFromLax(sc, i + 1)

\* PolicyFrom with the moderate-risk check switched on
RECURSIVE PolicyFromWithModerate(_, _)
PolicyFromWithModerate(sc, i) ==
    IF i > Len(high_risk_labels) + Len(moderate_risk_labels)
    THEN Verdict(TRUE, sc, AppropriateMessage)
    ELSE IF i > Len(high_risk_labels)
         THEN LET label == moderate_risk_labels[i - Len(high_risk_labels)]
              IN  IF DictGet(sc, label, 0) > suggestive_threshold
                  THEN Verdict(FALSE, sc,
                               Message("Suggestive content detected: ", label,
                                       Fmt2(DictAt(sc, label)), ""))
                  ELSE PolicyFromWithModerate(sc, i + 1)
         ELSE IF DictGet(sc, high_risk_labels[i], 0) > explicit_threshold
              THEN Verdict(FALSE, sc, InappropriateMessage(high_risk_labels[i], sc))
              ELSE PolicyFromWithModerate(sc, i + 1)

\* the loop over high_risk_labels from position i on, then the final return
RECURSIVE PolicyFrom(_, _)
PolicyFrom(sc, i) ==
    IF i > Len(high_risk_labels)
    THEN Verdict(TRUE, sc, AppropriateMessage)
    ELSE IF DictGet(sc, high_risk_labels[i], 0) > explicit_threshold
         THEN Verdict(FALSE, sc, InappropriateMessage(high_risk_labels[i], sc))
         ELSE PolicyFrom(sc, i + 1)

\* PolicyVerdict walking high_risk_labels from its last label to its first
RECURSIVE PolicyDown(_, _)
PolicyDown(sc, i) ==
    IF i = 0
    THEN Verdict(TRUE, sc, AppropriateMessage)
    ELSE IF DictGet(sc, high_risk_labels[i], 0) > explicit_threshold
         THEN Verdict(FALSE, sc, InappropriateMessage(high_risk_labels[i], sc))
         ELSE PolicyDown(sc, i - 1)

PolicyVerdictBackwards(sc) == PolicyDown(sc, Len(high_risk_labels))

PolicyVerdict(sc) == PolicyFrom(sc, 1)

\* json.dumps of a verdict: its members in the order of the dict literal
JsonDumps(v) ==
    << << "appropriate", v.appropriate >>, << "scores", v.scores >>,
       << "message", v.message >> >>

UsageVerdict == Verdict(FALSE, EmptyDict, UsageMessage)

\* no value yet
NoVerdict == [none |-> TRUE]

(***************************************************************************)
(* State                                                                   *)
(***************************************************************************)
VARIABLES
    DEPS_AVAILABLE,   \* the imports of the module succeeded
    detector,         \* the global handle: None, or the instance constructed
    run_as_main,      \* __name__ == "__main__"
    sys_argv,         \* program name and positional arguments
    pc,               \* where the process is
    image_data,       \* argument of the running call
    image_mode,       \* mode of the opened image
    detections,       \* what detector.detect returned
    idx,              \* position of the aggregation loop in detections
    scores,           \* the dict being aggregated
    result,           \* value returned by the last call
    stdout,           \* lines printed to standard output
    stderr,           \* lines printed to standard error
    exit_status,      \* << >> while running, then << status >>
    nConstructCalls,  \* history: invocations of NudeDetector()
    nCalls,           \* history: calls of check_image_content started
    done              \* history: steps the running call has completed

vars ==
    << DEPS_AVAILABLE, detector, run_as_main, sys_argv, pc, image_data, image_mode,
       detections, idx, scores, result, stdout, stderr, exit_status,
       nConstructCalls, nCalls, done >>

process == << DEPS_AVAILABLE, run_as_main, sys_argv >>

locals == << image_data, image_mode, detections, idx, scores, done >>

output == << stdout, exit_status >>

ctor == << detector, stderr, nConstructCalls >>

Init ==
    /\ DEPS_AVAILABLE \in BOOLEAN
    /\ detector = None
    /\ run_as_main \in BOOLEAN
    /\ sys_argv \in { << "content-filter.py" >> \o args :
                        args \in IF run_as_main THEN ArgLists ELSE { << >> } }
    /\ pc = IF run_as_main THEN "main" ELSE "idle"
    /\ image_data = ""
    /\ image_mode = ""
    /\ detections = << >>
    /\ idx = 0
    /\ scores = EmptyDict
    /\ result = NoVerdict
    /\ stdout = << >>
    /\ stderr = << >>
    /\ exit_status = << >>
    /\ nConstructCalls = 0
    /\ nCalls = 0
    /\ done = { }

(***************************************************************************)
(* check_image_content, step by step                                       *)
(***************************************************************************)
\* entry into the try block with argument p
Enter(p) ==
    /\ pc' = "init_detector"
    /\ image_data' = p
    /\ image_mode' = ""
    /\ detections' = << >>
    /\ idx' = 0
    /\ scores' = EmptyDict
    /\ result' = NoVerdict
    /\ done' = { }
    /\ nCalls' = nCalls + 1

\* the except branch handing back the scores aggregated so far
ExceptVerdictKeepsScores(e) == Verdict(FALSE, scores, ErrorMessage(e))

\* the except branch failing open
ExceptVerdictFailsOpen(e) == Verdict(TRUE, EmptyDict, ErrorMessage(e))

\* the except branch
ExceptVerdict(e) == Verdict(FALSE, EmptyDict, ErrorMessage(e))

\* an exception e raised inside the try block: the handler returns
Raise(e) ==
    /\ result' = ExceptVerdict(e)
    /\ pc' = "returned"

\* init_detector without its "if detector is None"
InitDetectorAlways ==
    /\ pc = "init_detector"
    /\ UNCHANGED << process, output, nCalls, image_data, image_mode, detections, idx, scores >>
    /\ IF ~DEPS_AVAILABLE
       THEN /\ Raise("Required dependencies not available")
            /\ UNCHANGED << ctor, done >>
       ELSE \E constructed \in BOOLEAN :
               /\ nConstructCalls' = nConstructCalls + 1
               /\ IF constructed
                  THEN /\ detector' = nConstructCalls + 1
                       /\ stderr' = Append(stderr, "NudeNet detector initialized")
                       /\ pc' = "b64decode"
                       /\ done' = done \cup { "init_detector" }
                       /\ UNCHANGED result
                  ELSE /\ Raise("NudeDetector failed")
                       /\ UNCHANGED << detector, stderr, done >>

\* init_detector()
InitDetector ==
    /\ pc = "init_detector"
    /\ UNCHANGED << process, output, nCalls, image_data, image_mode, detections, idx, scores >>
    /\ IF ~DEPS_AVAILABLE
       THEN /\ Raise("Required dependencies not available")
            /\ UNCHANGED << ctor, done >>
       ELSE IF detector = None
            THEN \E constructed \in BOOLEAN :
                    /\ nConstructCalls' = nConstructCalls + 1
                    /\ IF constructed
                       THEN /\ detector' = nConstructCalls + 1
                            /\ stderr' = Append(stderr, "NudeNet detector initialized")
                            /\ pc' = "b64decode"
                            /\ done' = done \cup { "init_detector" }
                            /\ UNCHANGED result
                       ELSE /\ Raise("NudeDetector failed")
                            /\ UNCHANGED << detector, stderr, done >>
            ELSE /\ pc' = "b64decode"
                 /\ done' = done \cup { "init_detector" }
                 /\ UNCHANGED << ctor, result >>

\* image_bytes = base64.b64decode(image_data_base64)
B64Decode ==
    /\ pc = "b64decode"
    /\ UNCHANGED << process, output, ctor, nCalls, image_data, image_mode, detections, idx, scores >>
    /\ IF image_data = "bad_base64"
       THEN /\ Raise("Incorrect padding")
            /\ UNCHANGED done
       ELSE /\ pc' = "open"
            /\ done' = done \cup { "b64decode" }
            /\ UNCHANGED result

\* Image.open, convert('RGB') when the mode is another, np.array
OpenImage ==
    /\ pc = "open"
    /\ UNCHANGED << process, output, ctor, nCalls, image_data, detections, idx, scores >>
    /\ IF image_data = "bad_image"
       THEN /\ Raise("cannot identify image file")
            /\ UNCHANGED << done, image_mode >>
       ELSE IF image_data = "image_unconvertible"
            THEN /\ Raise("image file is truncated")
                 /\ UNCHANGED << done, image_mode >>
            ELSE /\ image_mode' = "RGB"
                 /\ pc' = "detect"
                 /\ done' = done \cup { "open" }
                 /\ UNCHANGED result

\* detections = detector.detect(image_array); scores = {}
Detect ==
    /\ pc = "detect"
    /\ UNCHANGED << process, output, ctor, nCalls, image_data, image_mode >>
    /\ \/ /\ Raise("detect failed")
          /\ UNCHANGED << detections, idx, scores, done >>
       \/ \E dets \in DetectionSeqs :
            /\ detections' = dets
            /\ idx' = 1
            /\ scores' = EmptyDict
            /\ pc' = "aggregate"
            /\ done' = done \cup { "detect" }
            /\ UNCHANGED result

\* one turn of: for detection in detections
Aggregate ==
    /\ pc = "aggregate"
    /\ idx <= Len(detections)
    /\ UNCHANGED << process, output, ctor, nCalls, image_data, image_mode, detections, done >>
    /\ IF WellFormed(detections[idx])
       THEN /\ scores' = AggStep(scores, detections[idx])
            /\ idx' = idx + 1
            /\ UNCHANGED << pc, result >>
       ELSE /\ Raise("'class'")
            /\ UNCHANGED << scores, idx >>

\* the loop is over: thresholds, the high-risk check, the final return
Policy ==
    /\ pc = "aggregate"
    /\ idx > Len(detections)
    /\ result' = PolicyVerdict(scores)
    /\ pc' = "returned"
    /\ done' = done \cup { "aggregate", "policy" }
    /\ UNCHANGED << process, output, ctor, nCalls, image_data, image_mode, detections, idx, scores >>

(***************************************************************************)
(* The callers                                                             *)
(***************************************************************************)
\* main printing the usage verdict without sys.exit(1): it goes on to the call
MainUsageNoExit ==
    /\ pc = "main"
    /\ Len(sys_argv) # 2
    /\ stdout' = Append(stdout, JsonDumps(UsageVerdict))
    /\ IF Len(sys_argv) > 2
       THEN /\ Enter(sys_argv[2])
            /\ UNCHANGED << process, ctor, exit_status >>
       ELSE /\ exit_status' = << 1 >>
            /\ pc' = "exited"
            /\ UNCHANGED << process, ctor, locals, result, nCalls >>

\* main with len(sys.argv) != 2: the usage verdict and sys.exit(1)
MainUsage ==
    /\ pc = "main"
    /\ Len(sys_argv) # 2
    /\ stdout' = Append(stdout, JsonDumps(UsageVerdict))
    /\ exit_status' = << 1 >>
    /\ pc' = "exited"
    /\ UNCHANGED << process, ctor, locals, result, nCalls >>

\* main with one argument: result = check_image_content(sys.argv[1])
MainCall ==
    /\ pc = "main"
    /\ Len(sys_argv) = 2
    /\ Enter(sys_argv[2])
    /\ UNCHANGED << process, ctor, output >>

\* main exiting with a status that tells the verdict
MainPrintExitByVerdict ==
    /\ pc = "returned"
    /\ run_as_main
    /\ stdout' = Append(stdout, JsonDumps(result))
    /\ exit_status' = IF result.appropriate THEN << 0 >> ELSE << 1 >>
    /\ pc' = "exited"
    /\ UNCHANGED << process, ctor, locals, result, nCalls >>

\* print(json.dumps(result)) and the end of the script
MainPrint ==
    /\ pc = "returned"
    /\ run_as_main
    /\ stdout' = Append(stdout, JsonDumps(result))
    /\ exit_status' = << 0 >>
    /\ pc' = "exited"
    /\ UNCHANGED << process, ctor, locals, result, nCalls >>

\* a client of the imported module calls check_image_content(p)
ClientCall ==
    /\ pc = "idle"
    /\ nCalls < MaxCalls
    /\ \E p \in Payloads : Enter(p)
    /\ UNCHANGED << process, ctor, output >>

\* the call returns to the client
ClientReturn ==
    /\ pc = "returned"
    /\ ~run_as_main
    /\ pc' = "idle"
    /\ UNCHANGED << process, ctor, output, locals, result, nCalls >>

Next ==
    \/ MainUsage
    \/ MainCall
    \/ MainPrint
    \/ ClientCall
    \/ ClientReturn
    \/ InitDetector
    \/ B64Decode
    \/ OpenImage
    \/ Detect
    \/ Aggregate
    \/ Policy

Spec == Init /\ [][Next]_vars

(***************************************************************************)
(* lines 52-101 as a function of the detections, for comparing two runs    *)
(***************************************************************************)
RECURSIVE AggregateFrom(_, _, _)
AggregateFrom(sc, dets, i) ==
    IF i > Len(dets)
    THEN PolicyVerdict(sc)
    ELSE IF WellFormed(dets[i])
         THEN AggregateFrom(AggStep(sc, dets[i]), dets, i + 1)
         ELSE ExceptVerdict("'class'")

CheckDetections(dets) == AggregateFrom(EmptyDict, dets, 1)

(***************************************************************************)
(* Vocabulary of the properties                                            *)
(***************************************************************************)
\* the running call has just returned
Returned == pc = "returned"

\* ... through the policy evaluator: no step raised
Completed == Returned /\ "policy" \in done

\* ... through the except branch
Failed == Returned /\ "policy" \notin done

AllSteps == { "init_detector", "b64decode", "open", "detect", "aggregate", "policy" }

HighRisk == { high_risk_labels[i] : i \in 1..Len(high_risk_labels) }

\* the labels detected and the confidences detected for a label (all detections well formed)
LabelsDetected == { detections[i].class : i \in 1..Len(detections) }

ScoresDetected(l) ==
    { detections[i].score : i \in { j \in 1..Len(detections) : detections[j].class = l } }

\* aggregated confidence of a label: the largest one detected, 0 when not detected
AggConf(l) ==
    IF ScoresDetected(l) = { } THEN 0
    ELSE CHOOSE x \in ScoresDetected(l) : \A y \in ScoresDetected(l) : y <= x

\* positions in high_risk_labels of the labels over the threshold
Offending == { i \in 1..Len(high_risk_labels) : AggConf(high_risk_labels[i]) > explicit_threshold }

First(S) == CHOOSE i \in S : \A j \in S : i <= j

Last(S) == CHOOSE i \in S : \A j \in S : j <= i

\* the text of the exception the failed call met, from the step it stopped at
ErrorOfRun ==
    IF "init_detector" \notin done
    THEN IF ~DEPS_AVAILABLE THEN "Required dependencies not available" ELSE "NudeDetector failed"
    ELSE IF "b64decode" \notin done THEN "Incorrect padding"
    ELSE IF "open" \notin done
         THEN IF image_data = "bad_image" THEN "cannot identify image file"
              ELSE "image file is truncated"
    ELSE IF "detect" \notin done THEN "detect failed"
    ELSE "'class'"

Perms(s) ==
    { [i \in 1..Len(s) |-> s[f[i]]] :
        f \in { g \in [1..Len(s) -> 1..Len(s)] :
                  \A a, b \in 1..Len(s) : g[a] = g[b] => a = b } }

VerdictEq(v, w) ==
    /\ v.appropriate = w.appropriate
    /\ DictEq(v.scores, w.scores)
    /\ v.message = w.message

(***************************************************************************)
(* Properties                                                              *)
(***************************************************************************)
\* C1: a call in which a step raised returns (the exception does not leave the
\* call) the verdict appropriate=False, scores {} and a message holding the
\* text of that error, also when detections had been aggregated before.
FailClosedOnError ==
    Failed =>
        /\ result.appropriate = FALSE
        /\ result.scores = EmptyDict
        /\ result.message.text = "Content filtering error: "
        /\ result.message.err = ErrorOfRun
        /\ exit_status = << >>

\* a detection was aggregated, the next one raised
FailClosedOnErrorWitness ==
    /\ Failed
    /\ scores # EmptyDict
    /\ result.scores = EmptyDict

\* C2 as stated: every high-risk label over the threshold makes the verdict
\* inappropriate and is named, with its confidence, in the message.
EveryOffendingLabelNamed ==
    Completed =>
        \A l \in HighRisk :
            AggConf(l) > explicit_threshold =>
                /\ result.appropriate = FALSE
                /\ result.message.label = l
                /\ result.message.conf = Fmt2(AggConf(l))

\* C2 amended: every high-risk label over the threshold makes the verdict
\* inappropriate; the message names it, with its confidence to 2 decimals,
\* when no label before it in high_risk_labels is over the threshold.
OffendingLabelRejected ==
    Completed =>
        \A i \in 1..Len(high_risk_labels) :
            AggConf(high_risk_labels[i]) > explicit_threshold =>
                /\ result.appropriate = FALSE
                /\ (\A j \in 1..(i - 1) : AggConf(high_risk_labels[j]) <= explicit_threshold)
                      => /\ result.message.label = high_risk_labels[i]
                         /\ result.message.conf = Fmt2(AggConf(high_risk_labels[i]))

\* two high-risk labels are over the threshold in one image
OffendingLabelRejectedWitness ==
    /\ Completed
    /\ Cardinality(Offending) >= 2
    /\ result.appropriate = FALSE

\* C3: with every high-risk label at or below the threshold (0 when absent),
\* a call in which no step raised returns appropriate=True whatever the
\* scores of the other labels.
OnlyHighRiskDecides ==
    (Completed /\ \A l \in HighRisk : AggConf(l) <= explicit_threshold)
        => /\ result.appropriate = TRUE
           /\ result.message = AppropriateMessage

\* a moderate-risk label far over suggestive_threshold, a high-risk label at 0.2
OnlyHighRiskDecidesWitness ==
    /\ Completed
    /\ Offending = { }
    /\ AggConf("EXPOSED_ARMPITS") > suggestive_threshold
    /\ \E l \in HighRisk : AggConf(l) = explicit_threshold
    /\ result.appropriate = TRUE

\* C4: run with one argument, the script prints one line, the JSON of the
\* verdict of the call, and exits 0, whatever the verdict; before that it has
\* printed nothing and can always take its next step.
CliOneArgExitsZero ==
    (run_as_main /\ Len(sys_argv) = 2) =>
        /\ pc = "exited" =>
              /\ stdout = << JsonDumps(result) >>
              /\ exit_status = << 0 >>
              /\ nCalls = 1
        /\ pc # "exited" =>
              /\ stdout = << >>
              /\ exit_status = << >>
              /\ ENABLED Next

\* malformed base64 on the command line: a negative verdict and exit 0
CliOneArgExitsZeroWitness ==
    /\ run_as_main
    /\ pc = "exited"
    /\ Len(sys_argv) = 2
    /\ sys_argv[2] = "bad_base64"
    /\ result.appropriate = FALSE
    /\ result.message.err # ""
    /\ exit_status = << 0 >>

\* C5: run with no argument or with two or more, the script prints the usage
\* verdict (appropriate=False, scores {}) and exits 1; check_image_content
\* is never called and the detector handle stays None.
CliArityMismatch ==
    (run_as_main /\ Len(sys_argv) # 2) =>
        /\ nCalls = 0
        /\ nConstructCalls = 0
        /\ detector = None
        /\ done = { }
        /\ result = NoVerdict
        /\ pc \in { "main", "exited" }
        /\ pc = "main" => (stdout = << >> /\ exit_status = << >>)
        /\ pc = "exited" =>
              /\ stdout = << << << "appropriate", FALSE >>, << "scores", EmptyDict >>,
                              << "message", UsageMessage >> >> >>
              /\ exit_status = << 1 >>

\* two arguments were given and the script has exited
CliArityMismatchWitness ==
    /\ run_as_main
    /\ Len(sys_argv) = 3
    /\ pc = "exited"
    /\ exit_status = << 1 >>

\* C6 as stated, for a process whose imports succeeded: once the first call
\* is past init_detector, NudeDetector has been constructed exactly once and
\* the handle is set.
ConstructedOnFirstUse ==
    (DEPS_AVAILABLE /\ nCalls >= 1 /\ pc # "init_detector")
        => (nConstructCalls = 1 /\ detector # None)

\* C6 amended: NudeDetector() is invoked only while the handle is None and
\* the imports succeeded (so again by a later call when a construction
\* raised); once the handle is set, it is never reset or replaced and
\* NudeDetector() is never invoked again.
HandleSetOnce ==
    [][ /\ detector # None =>
              (detector' = detector /\ nConstructCalls' = nConstructCalls)
        /\ nConstructCalls' # nConstructCalls => (detector = None /\ DEPS_AVAILABLE)
        /\ detector' # detector => nConstructCalls' # nConstructCalls ]_vars

\* a second call went through init_detector with the handle of the first
HandleSetOnceWitness ==
    /\ nCalls >= 2
    /\ "init_detector" \in done
    /\ detector = 1
    /\ nConstructCalls = 1

\* C7: when high-risk labels are over the threshold, the message names the
\* first of them in the order of high_risk_labels, with that label's
\* aggregated confidence, whatever the order of the detections and whichever
\* label has the highest confidence.
FirstOffendingLabelNamed ==
    (Completed /\ Offending # { }) =>
        /\ result.appropriate = FALSE
        /\ result.message =
              Message("Inappropriate content detected: ",
                      high_risk_labels[First(Offending)],
                      Fmt2(AggConf(high_risk_labels[First(Offending)])), "")

\* the label detected first is later in high_risk_labels and more confident
FirstOffendingLabelNamedWitness ==
    /\ Completed
    /\ Cardinality(Offending) >= 2
    /\ detections[1].class = high_risk_labels[Last(Offending)]
    /\ AggConf(high_risk_labels[First(Offending)])
          < AggConf(high_risk_labels[Last(Offending)])

\* C8: the call on any permutation of the detections returns the same
\* appropriate flag, equal scores (as dicts) and the same message.
PermutationInvariant ==
    (Returned /\ "detect" \in done) =>
        \A p \in Perms(detections) : VerdictEq(result, CheckDetections(p))

\* one label detected twice, with two confidences
PermutationInvariantWitness ==
    /\ Completed
    /\ Len(detections) = 2
    /\ detections[1].class = detections[2].class
    /\ detections[1].score # detections[2].score

\* C9: after a call in which no step raised, the keys of the scores are the
\* labels detected, each once, and each maps to the largest confidence
\* detected for it.
ScoresAreMaxima ==
    Completed =>
        /\ DictKeys(result.scores) = LabelsDetected
        /\ Len(result.scores) = Cardinality(LabelsDetected)
        /\ \A l \in LabelsDetected : DictAt(result.scores, l) = AggConf(l)

\* a negative verdict; the larger confidence of the label came first
ScoresAreMaximaWitness ==
    /\ Completed
    /\ result.appropriate = FALSE
    /\ Len(detections) = 2
    /\ detections[1].class = detections[2].class
    /\ detections[1].score > detections[2].score
    /\ \E l \in DetLabels : l \notin DictKeys(result.scores)

\* C10: appropriate=True is returned only when the imports succeeded, the
\* handle is set, every step of the call completed and no high-risk label is
\* over the threshold; decoding never precedes init_detector, and without
\* the imports no call returns appropriate=True and the handle stays None.
PositiveVerdictSound ==
    /\ (Returned /\ result.appropriate) =>
            /\ DEPS_AVAILABLE
            /\ detector # None
            /\ done = AllSteps
            /\ image_data \in { "image_RGB", "image_RGBA" }
            /\ idx = Len(detections) + 1
            /\ \A l \in HighRisk : AggConf(l) <= explicit_threshold
    /\ "b64decode" \in done => "init_detector" \in done
    /\ ~DEPS_AVAILABLE =>
            /\ detector = None
            /\ nConstructCalls = 0
            /\ done = { }
            /\ Returned => result.appropriate = FALSE

\* a positive verdict on an image with detections
PositiveVerdictSoundWitness ==
    /\ Returned
    /\ result.appropriate = TRUE
    /\ Len(detections) > 0

====
